---------------------------- MODULE Spec2Model ----------------------------
(***************************************************************************)
(* A model of coco.js, the colour converter's control file: the three      *)
(* validators, the four converters, the CMYK formatter, the three change   *)
(* handlers of the form and the two option switches.                       *)
(*                                                                         *)
(* Representation.                                                         *)
(*  - A JavaScript string is a sequence of one-character strings.  The     *)
(*    character U+FB00 (LATIN SMALL LIGATURE FF) is written "LIG_FF".      *)
(*  - A JavaScript number is a record [nan, n, d]: NaN, or the rational    *)
(*    n/d in lowest terms with d > 0 (d = 0, n = +-1 is +-Infinity).  The  *)
(*    arithmetic is exact; an IEEE double differs from it by a relative    *)
(*    error below 2^-50, which can change a result only at an exact tie of *)
(*    Math.round or toFixed.                                               *)
(*  - A value that is either a number or a string is a record              *)
(*    [t, num, str].                                                       *)
(***************************************************************************)
EXTENDS Integers, Sequences, FiniteSets, TLC

VARIABLES
    isHexSharp,     \* global var, "true" or "false"        (coco.js:19)
    isCMYKPercent,  \* global var, "true" or "false"        (coco.js:20)
    localStorage,   \* the two stored items, NULL when absent
    checked,        \* the two option checkboxes of the form
    field,          \* the text of the eight input fields
    colorDemo,      \* the css background-color handed to #colorDemo
    lastAlert,      \* whether the latest change handler raised alert()
    pending,        \* the change event the browser has yet to dispatch
    edited,         \* the field the user typed into for that event
    written,        \* the fractions the latest formatting put in the CMYK fields
    cmykRead,       \* fC, fM, fY, fK as cmykChanged last parsed them
    edits,          \* how many times the user has changed a field's text
    call            \* a direct call of one library function and its outcome

uiVars == <<isHexSharp, isCMYKPercent, localStorage, checked, field, colorDemo,
            lastAlert, pending, edited, written, cmykRead, edits>>
vars == <<isHexSharp, isCMYKPercent, localStorage, checked, field, colorDemo,
          lastAlert, pending, edited, written, cmykRead, edits, call>>

----------------------------------------------------------------------------
(* Bounds of the model and constants of the program *)

MaxEdits == 3        \* most changes of a field's text by the user in one session
MaxBodyLen == 7      \* longest typed hex text after its leading '#' characters
MaxHashes == 2       \* most leading '#' characters of a typed hex text
RgbMargin == 60      \* how far below 0 and above 255 makeValidRgb is tried
GridSteps == 2000    \* the fractions k/GridSteps are given to formatCmykOutput
HEX_NOT_VALID == -1
RGB_MAX == 255

HEX_SHARP_KEY == "hex_sharp"
CMYK_PERCENT_KEY == "cmyk_percent"
NULL == "<null>"

----------------------------------------------------------------------------
(* JavaScript numbers *)

RECURSIVE Gcd(_, _)
Gcd(a, b) == IF b = 0 THEN a ELSE Gcd(b, a % b)

Abs(x) == IF x < 0 THEN -x ELSE x

NaN == [nan |-> TRUE, n |-> 0, d |-> 1]

\* n/d in lowest terms with a positive denominator; 0/0 is NaN, x/0 is +-Infinity
Frac(n, d) ==
    IF d = 0
    THEN IF n = 0 THEN NaN ELSE [nan |-> FALSE, n |-> (IF n < 0 THEN -1 ELSE 1), d |-> 0]
    ELSE LET g == Gcd(Abs(n), Abs(d))
             s == IF d < 0 THEN -1 ELSE 1
         IN [nan |-> FALSE, n |-> s * (n \div g), d |-> s * (d \div g)]

Num(i) == [nan |-> FALSE, n |-> i, d |-> 1]

isNaN(x) == x.nan

NumAdd(x, y) == IF x.nan \/ y.nan THEN NaN ELSE Frac(x.n * y.d + y.n * x.d, x.d * y.d)
NumSub(x, y) == IF x.nan \/ y.nan THEN NaN ELSE Frac(x.n * y.d - y.n * x.d, x.d * y.d)
NumMul(x, y) == IF x.nan \/ y.nan THEN NaN ELSE Frac(x.n * y.n, x.d * y.d)
NumDiv(x, y) == IF x.nan \/ y.nan THEN NaN ELSE Frac(x.n * y.d, x.d * y.n)

\* the comparisons of JavaScript: every comparison with NaN is false
NumLt(x, y) == ~x.nan /\ ~y.nan /\ x.n * y.d < y.n * x.d
NumGt(x, y) == NumLt(y, x)
NumEq(x, y) == ~x.nan /\ ~y.nan /\ x.n * y.d = y.n * x.d

\* Math.min: NaN when either argument is
MathMin(x, y) == IF x.nan \/ y.nan THEN NaN ELSE IF NumLt(y, x) THEN y ELSE x

\* Math.round: the nearest integer, a tie going up
MathRound(x) == IF x.nan \/ x.d = 0 THEN x ELSE Num((2 * x.n + x.d) \div (2 * x.d))

----------------------------------------------------------------------------
(* JavaScript strings *)

Digits == <<"0", "1", "2", "3", "4", "5", "6", "7", "8", "9">>
hex == <<"0", "1", "2", "3", "4", "5", "6", "7", "8", "9", "A", "B", "C", "D", "E", "F">>
LowerHex == <<"a", "b", "c", "d", "e", "f">>
WhiteSpace == {" "}

IndexOf(seq, c) == IF \E i \in 1..Len(seq) : seq[i] = c
                   THEN CHOOSE i \in 1..Len(seq) : seq[i] = c
                   ELSE 0

\* s.charAt(i), i counted from 0: the empty string when i is out of range
charAt(s, i) == IF i \in 0..(Len(s) - 1) THEN <<s[i + 1]>> ELSE <<>>

\* s.substr(start, length), start counted from 0
substr(s, start, length) ==
    LET last == IF start + length < Len(s) THEN start + length ELSE Len(s)
    IN IF start >= Len(s) THEN <<>> ELSE SubSeq(s, start + 1, last)

\* the upper case of one character: a string, of two characters for U+FB00
UpperChar(c) ==
    IF IndexOf(LowerHex, c) > 0 THEN <<hex[10 + IndexOf(LowerHex, c)]>>
    ELSE IF c = "g" THEN <<"G">>
    ELSE IF c = "x" THEN <<"X">>
    ELSE IF c = "LIG_FF" THEN <<"F", "F">>
    ELSE <<c>>

RECURSIVE toUpperCase(_)
toUpperCase(s) == IF s = <<>> THEN <<>> ELSE UpperChar(Head(s)) \o toUpperCase(Tail(s))

\* the value of character c as a digit of the radix, -1 when it is none
DigitValue(c, radix) ==
    LET u == UpperChar(c)
        i == IF Len(u) = 1 THEN IndexOf(hex, u[1]) ELSE 0
    IN IF i > 0 /\ i <= radix THEN i - 1 ELSE -1

RECURSIVE SkipSpace(_)
SkipSpace(s) == IF s # <<>> /\ Head(s) \in WhiteSpace THEN SkipSpace(Tail(s)) ELSE s

\* the longest prefix of s made of digits of the radix
RECURSIVE DigitPrefix(_, _)
DigitPrefix(s, radix) ==
    IF s # <<>> /\ DigitValue(Head(s), radix) >= 0
    THEN <<Head(s)>> \o DigitPrefix(Tail(s), radix)
    ELSE <<>>

\* the value of a string of digits, read left to right from acc
RECURSIVE DigitsValue(_, _, _)
DigitsValue(s, radix, acc) ==
    IF s = <<>> THEN acc
    ELSE DigitsValue(Tail(s), radix, acc * radix + DigitValue(Head(s), radix))

RECURSIVE Pow10(_)
Pow10(k) == IF k = 0 THEN 1 ELSE 10 * Pow10(k - 1)

\* parseInt(s, radix): blanks, a sign, "0x" when the radix is 16, then digits
parseInt(s, radix) ==
    LET t == SkipSpace(s)
        neg == t # <<>> /\ Head(t) = "-"
        u == IF t # <<>> /\ Head(t) \in {"-", "+"} THEN Tail(t) ELSE t
        v == IF radix = 16 /\ Len(u) >= 2 /\ u[1] = "0" /\ u[2] \in {"x", "X"}
             THEN Tail(Tail(u)) ELSE u
        ds == DigitPrefix(v, radix)
    IN IF ds = <<>> THEN NaN
       ELSE Num((IF neg THEN -1 ELSE 1) * DigitsValue(ds, radix, 0))

\* parseFloat(s): blanks, a sign, digits, and a '.' with digits (no exponent)
parseFloat(s) ==
    LET t == SkipSpace(s)
        neg == t # <<>> /\ Head(t) = "-"
        u == IF t # <<>> /\ Head(t) \in {"-", "+"} THEN Tail(t) ELSE t
        ip == DigitPrefix(u, 10)
        rest == SubSeq(u, Len(ip) + 1, Len(u))
        fp == IF rest # <<>> /\ Head(rest) = "." THEN DigitPrefix(Tail(rest), 10) ELSE <<>>
        mag == Frac(DigitsValue(ip \o fp, 10, 0), Pow10(Len(fp)))
    IN IF ip = <<>> /\ fp = <<>> THEN NaN
       ELSE IF neg THEN NumSub(Num(0), mag) ELSE mag

\* s.replace(',', '.'): the first comma only
RECURSIVE replaceComma(_)
replaceComma(s) ==
    IF s = <<>> THEN <<>>
    ELSE IF Head(s) = "," THEN <<".">> \o Tail(s)
    ELSE <<Head(s)>> \o replaceComma(Tail(s))

\* the decimal text of a natural number
RECURSIVE NatToStr(_)
NatToStr(i) == IF i < 10 THEN <<Digits[i + 1]>> ELSE NatToStr(i \div 10) \o <<Digits[(i % 10) + 1]>>

\* String(x) for an integer or NaN, as the + operator and jQuery's val() make it
ToStr(x) ==
    IF x.nan THEN <<"N", "a", "N">>
    ELSE IF x.n < 0 THEN <<"-">> \o NatToStr(-x.n)
    ELSE NatToStr(x.n)

RECURSIVE Zeros(_)
Zeros(k) == IF k <= 0 THEN <<>> ELSE <<"0">> \o Zeros(k - 1)

\* x.toFixed(digits) for x >= 0 or NaN: x rounded to that many decimals (a tie
\* going up), with every decimal written
toFixed(x, digits) ==
    IF x.nan THEN <<"N", "a", "N">>
    ELSE LET scaled == MathRound(NumMul(x, Num(Pow10(digits)))).n
             txt == NatToStr(scaled)
             padded == Zeros(digits + 1 - Len(txt)) \o txt
         IN SubSeq(padded, 1, Len(padded) - digits) \o <<".">>
            \o SubSeq(padded, Len(padded) - digits + 1, Len(padded))

\* a value that is a number or a string
JsNum(x) == [t |-> "number", num |-> x, str |-> <<>>]
JsStr(s) == [t |-> "string", num |-> Num(0), str |-> s]

----------------------------------------------------------------------------
(* Validators *)

\* mutant of makeValidRgb: the clamp at 255 forgotten
makeValidRgbNoUpper(value) ==
    IF isNaN(value) \/ NumLt(value, Num(0)) THEN Num(0) ELSE value

makeValidRgb(value) ==
    IF isNaN(value) \/ NumLt(value, Num(0)) THEN Num(0)
    ELSE IF NumGt(value, Num(RGB_MAX)) THEN Num(RGB_MAX)
    ELSE value

makeValidCmyk(value) ==
    IF isNaN(value) \/ NumLt(value, Num(0)) THEN Num(0)
    ELSE IF NumGt(value, Num(1)) THEN Num(1)
    ELSE value

\* new RegExp("[0-9ABCEDF]{6}").test(value): six consecutive characters of the
\* class anywhere in value
regExpTest(value) ==
    \E i \in 1..(Len(value) - 5) :
        \A j \in i..(i + 5) : IndexOf(hex, value[j]) > 0

\* lines 76-83: the '#' removed, or the string cut to 6 characters
makeValidHexCut(value) ==
    IF charAt(value, 0) = <<"#">> THEN substr(value, 1, 6)
    ELSE IF Len(value) > 6 THEN substr(value, 0, 6)
    ELSE value

\* line 92: each of the three characters doubled
makeValidHexStretch(value) ==
    charAt(value, 0) \o charAt(value, 0) \o charAt(value, 1) \o charAt(value, 1)
        \o charAt(value, 2) \o charAt(value, 2)

makeValidHex(value) ==
    LET cut == makeValidHexCut(value)
        l == Len(cut)
        upper == toUpperCase(IF l = 3 THEN makeValidHexStretch(cut) ELSE cut)
    IN IF l # 3 /\ l # 6 THEN JsNum(Num(HEX_NOT_VALID))
       ELSE IF ~regExpTest(upper) THEN JsNum(Num(HEX_NOT_VALID))
       ELSE JsStr(upper)

----------------------------------------------------------------------------
(* Converters *)

\* mutant of rgb2cmykTrace: the pure-black branch forgotten
rgb2cmykTraceNoBlack(iR, iG, iB) ==
    LET fC == NumSub(Num(1), NumDiv(iR, Num(255)))
        fM == NumSub(Num(1), NumDiv(iG, Num(255)))
        fY == NumSub(Num(1), NumDiv(iB, Num(255)))
        fK == MathMin(Num(1), MathMin(fC, MathMin(fM, fY)))
        divisor == NumSub(Num(1), fK)
    IN [branch |-> "divide", divisor |-> divisor,
        ret |-> <<NumDiv(NumSub(fC, fK), divisor),
                  NumDiv(NumSub(fM, fK), divisor),
                  NumDiv(NumSub(fY, fK), divisor),
                  fK>>]

\* rgb2cmyk with the branch it took and the divisor 1 - fK of lines 131-133
rgb2cmykTrace(iR, iG, iB) ==
    LET fC == NumSub(Num(1), NumDiv(iR, Num(255)))
        fM == NumSub(Num(1), NumDiv(iG, Num(255)))
        fY == NumSub(Num(1), NumDiv(iB, Num(255)))
        fK == MathMin(Num(1), MathMin(fC, MathMin(fM, fY)))
        divisor == NumSub(Num(1), fK)
    IN IF NumEq(fK, Num(1))
       THEN [branch |-> "black", divisor |-> divisor,
             ret |-> <<Num(0), Num(0), Num(0), fK>>]
       ELSE [branch |-> "divide", divisor |-> divisor,
             ret |-> <<NumDiv(NumSub(fC, fK), divisor),
                       NumDiv(NumSub(fM, fK), divisor),
                       NumDiv(NumSub(fY, fK), divisor),
                       fK>>]

rgb2cmyk(iR, iG, iB) == rgb2cmykTrace(iR, iG, iB).ret

\* mutant of cmyk2rgb: the black component left out
cmyk2rgbNoKey(fC, fM, fY, fK) ==
    <<MathRound(NumMul(NumSub(Num(1), fC), Num(255))),
      MathRound(NumMul(NumSub(Num(1), fM), Num(255))),
      MathRound(NumMul(NumSub(Num(1), fY), Num(255)))>>

cmyk2rgb(fC, fM, fY, fK) ==
    LET c == NumAdd(NumMul(fC, NumSub(Num(1), fK)), fK)
        m == NumAdd(NumMul(fM, NumSub(Num(1), fK)), fK)
        y == NumAdd(NumMul(fY, NumSub(Num(1), fK)), fK)
    IN <<MathRound(NumMul(NumSub(Num(1), c), Num(255))),
         MathRound(NumMul(NumSub(Num(1), m), Num(255))),
         MathRound(NumMul(NumSub(Num(1), y), Num(255)))>>

\* a % b of JavaScript on integers: the sign of the dividend
JsRem(a, b) == IF a >= 0 THEN a % b ELSE -((-a) % b)

\* mutant of rgb2hexPair: the two digits in the wrong order
rgb2hexPairSwapped(i) ==
    IF i.nan THEN <<"0", "0">>
    ELSE charAt(hex, JsRem(i.n, 16)) \o charAt(hex, (i.n - JsRem(i.n, 16)) \div 16)

\* lines 178-180, one channel (an integer): hex.charAt((i - i % 16) / 16) +
\* hex.charAt(i % 16); charAt(NaN) is charAt(0)
rgb2hexPair(i) ==
    IF i.nan THEN <<"0", "0">>
    ELSE charAt(hex, (i.n - JsRem(i.n, 16)) \div 16) \o charAt(hex, JsRem(i.n, 16))

rgb2hex(iR, iG, iB) ==
    LET value == rgb2hexPair(iR) \o rgb2hexPair(iG) \o rgb2hexPair(iB)
    IN IF isHexSharp = "true" THEN <<"#">> \o value ELSE value

hex2rgb(sHEX) ==
    <<parseInt(substr(sHEX, 0, 2), 16),
      parseInt(substr(sHEX, 2, 2), 16),
      parseInt(substr(sHEX, 4, 2), 16)>>

----------------------------------------------------------------------------
(* The formatter.  An array is an object on the heap: heap maps a reference *)
(* to the array's elements, and formatCmykOutput is given, and returns, a   *)
(* reference.                                                               *)

\* line 361: Math.round(aCMYK[i] * 100) + " %"
formatPercent(x) == ToStr(MathRound(NumMul(x, Num(100)))) \o <<" ", "%">>

\* mutant of formatCmykElement: two decimals instead of three
formatCmykElementTwoDecimals(v) ==
    IF isCMYKPercent = "true" THEN JsStr(formatPercent(v.num))
    ELSE JsStr(toFixed(v.num, 2))

\* lines 358-369: what the loop assigns to aCMYK[i]
formatCmykElement(v) ==
    IF isCMYKPercent = "true" THEN JsStr(formatPercent(v.num))
    ELSE JsStr(toFixed(v.num, 3))

formatCmykOutput(heap, aCMYK) ==
    [heap |-> [heap EXCEPT ![aCMYK] =
                   [i \in 1..Len(heap[aCMYK]) |-> formatCmykElement(heap[aCMYK][i])]],
     ret |-> aCMYK]

\* new Array(a, b, c, d) of numbers, at a fresh reference of the heap
NumArray(xs) == [i \in 1..Len(xs) |-> JsNum(xs[i])]

\* the strings of a formatted array
Strings(arr) == [i \in 1..Len(arr) |-> arr[i].str]

\* formatCmykOutput on a fresh array holding xs: the four strings
formatFresh(xs) ==
    LET out == formatCmykOutput([ref \in {"a1"} |-> NumArray(xs)], "a1")
    IN Strings(out.heap[out.ret])

\* updateColorDemo: the value given to css('background-color', ...)
updateColorDemo(sHex) == IF isHexSharp = "false" THEN <<"#">> \o sHex ELSE sHex

----------------------------------------------------------------------------
(* The form: eight input fields, the colour swatch, two option switches *)

RgbNames == <<"rgb_R", "rgb_G", "rgb_B">>
CmykNames == <<"cmyk_C", "cmyk_M", "cmyk_Y", "cmyk_K">>
RgbFields == {RgbNames[i] : i \in 1..3}
CmykFields == {CmykNames[i] : i \in 1..4}
Fields == RgbFields \cup CmykFields \cup {"hex"}
OptionKeys == {HEX_SHARP_KEY, CMYK_PERCENT_KEY}

\* the fields the user types into, and what the user types there
EditedFields == {"rgb_R", "cmyk_K", "hex"}
RgbTexts == {<<"1", "2", "8">>, <<"3", "0", "0">>}
CmykTexts == {<<"0", ",", "5">>, <<"5", "0">>}
HexTexts == {<<"a", "b", "c">>, <<"#", "1", "a", "2", "b", "3", "c">>, <<"1", "2">>,
             <<"LIG_FF", "LIG_FF", "LIG_FF">>}

TextsOf(f) == IF f \in RgbFields THEN RgbTexts
              ELSE IF f \in CmykFields THEN CmykTexts
              ELSE HexTexts

GroupOf(f) == IF f \in RgbFields THEN "rgb"
              ELSE IF f \in CmykFields THEN "cmyk"
              ELSE "hex"

\* localStorage.getItem(key) != null ? localStorage.getItem(key) : the default
LoadOption(store, key) == IF store[key] # NULL THEN store[key] ELSE "false"

NoneWritten == [f \in CmykFields |-> [set |-> FALSE, val |-> Num(0)]]
NoneRead == [f \in CmykFields |-> Num(0)]
NoCall == [fn |-> "none"]

\* the state document.ready leaves: the options loaded from what an earlier
\* session stored, the switches set to match, the fields not yet filled in
Init ==
    /\ localStorage \in [OptionKeys -> {NULL, "true", "false"}]
    /\ isHexSharp = LoadOption(localStorage, HEX_SHARP_KEY)
    /\ isCMYKPercent = LoadOption(localStorage, CMYK_PERCENT_KEY)
    /\ checked = [k \in OptionKeys |-> localStorage[k] = "true"]
    /\ field = [f \in Fields |-> <<>>]
    /\ colorDemo = <<>>
    /\ lastAlert = FALSE
    /\ pending = "none"
    /\ edited = "none"
    /\ written = NoneWritten
    /\ cmykRead = NoneRead
    /\ edits = 0
    /\ call = NoCall

\* the user changes the text of one field; the browser will dispatch change
UserEdits(f, txt) ==
    /\ pending = "none"
    /\ edits < MaxEdits
    /\ txt # field[f]
    /\ field' = [field EXCEPT ![f] = txt]
    /\ pending' = GroupOf(f)
    /\ edited' = f
    /\ edits' = edits + 1
    /\ UNCHANGED <<isHexSharp, isCMYKPercent, localStorage, checked, colorDemo,
                   lastAlert, written, cmykRead, call>>

\* the fields after val() of the three channels, the four CMYK strings and sHEX
Output(aRGB, aCMYK, sHEX) ==
    [f \in Fields |->
        IF f \in RgbFields THEN ToStr(aRGB[IndexOf(RgbNames, f)])
        ELSE IF f \in CmykFields THEN aCMYK[IndexOf(CmykNames, f)]
        ELSE sHEX]

Written(fs) == [f \in CmykFields |-> [set |-> TRUE, val |-> fs[IndexOf(CmykNames, f)]]]

rgbChanged ==
    /\ pending = "rgb"
    /\ LET iR == makeValidRgb(parseInt(field["rgb_R"], 10))
           iG == makeValidRgb(parseInt(field["rgb_G"], 10))
           iB == makeValidRgb(parseInt(field["rgb_B"], 10))
           fs == rgb2cmyk(iR, iG, iB)
           aCMYK == formatFresh(fs)
           sHEX == rgb2hex(iR, iG, iB)
       IN /\ field' = Output(<<iR, iG, iB>>, aCMYK, sHEX)
          /\ colorDemo' = updateColorDemo(sHEX)
          /\ written' = Written(fs)
    /\ lastAlert' = FALSE
    /\ pending' = "none"
    /\ edited' = "none"
    /\ UNCHANGED <<isHexSharp, isCMYKPercent, localStorage, checked, cmykRead, edits, call>>

\* lines 255-266: one CMYK field's text as a fraction
cmykParse(txt) ==
    IF isCMYKPercent = "false" THEN parseFloat(replaceComma(txt))
    ELSE NumDiv(parseInt(txt, 10), Num(100))

cmykChanged ==
    /\ pending = "cmyk"
    /\ LET read == [f \in CmykFields |-> cmykParse(field[f])]
           fC == makeValidCmyk(read["cmyk_C"])
           fM == makeValidCmyk(read["cmyk_M"])
           fY == makeValidCmyk(read["cmyk_Y"])
           fK == makeValidCmyk(read["cmyk_K"])
           aRGB == cmyk2rgb(fC, fM, fY, fK)
           sHEX == rgb2hex(aRGB[1], aRGB[2], aRGB[3])
           aCMYK == formatFresh(<<fC, fM, fY, fK>>)
       IN /\ field' = Output(aRGB, aCMYK, sHEX)
          /\ colorDemo' = updateColorDemo(sHEX)
          /\ written' = Written(<<fC, fM, fY, fK>>)
          /\ cmykRead' = read
    /\ lastAlert' = FALSE
    /\ pending' = "none"
    /\ edited' = "none"
    /\ UNCHANGED <<isHexSharp, isCMYKPercent, localStorage, checked, edits, call>>

\* line 314: sHEX == HEX_NOT_VALID
IsNotValid(v) == v.t = "number" /\ NumEq(v.num, Num(HEX_NOT_VALID))

\* mutant of hexChangedRejected: the rejected text wiped from the hex field
hexChangedRejectedClears ==
    /\ lastAlert' = TRUE
    /\ field' = [field EXCEPT !["hex"] = <<>>]
    /\ UNCHANGED <<colorDemo, written>>

\* lines 313-318: the alert, and return false
hexChangedRejected ==
    /\ lastAlert' = TRUE
    /\ UNCHANGED <<field, colorDemo, written>>

\* lines 320-346
hexChangedAccepted(valid) ==
    LET aRGB == hex2rgb(valid)
        fs == rgb2cmyk(aRGB[1], aRGB[2], aRGB[3])
        aCMYK == formatFresh(fs)
        sHEX == IF isHexSharp = "true" THEN <<"#">> \o valid ELSE valid
    IN /\ field' = Output(aRGB, aCMYK, sHEX)
       /\ colorDemo' = updateColorDemo(sHEX)
       /\ written' = Written(fs)
       /\ lastAlert' = FALSE

hexChanged ==
    /\ pending = "hex"
    /\ LET sHEX == makeValidHex(field["hex"])
       IN IF IsNotValid(sHEX) THEN hexChangedRejected ELSE hexChangedAccepted(sHEX.str)
    /\ pending' = "none"
    /\ edited' = "none"
    /\ UNCHANGED <<isHexSharp, isCMYKPercent, localStorage, checked, cmykRead, edits, call>>

\* lines 434-445; the switch has been flipped when the handler reads it
hexSharpChanged ==
    /\ pending = "none"
    /\ checked' = [checked EXCEPT ![HEX_SHARP_KEY] = ~checked[HEX_SHARP_KEY]]
    /\ LET v == IF checked'[HEX_SHARP_KEY] THEN "true" ELSE "false"
       IN /\ localStorage' = [localStorage EXCEPT ![HEX_SHARP_KEY] = v]
          /\ isHexSharp' = v
    /\ UNCHANGED <<isCMYKPercent, field, colorDemo, lastAlert, pending, edited,
                   written, cmykRead, edits, call>>

\* lines 448-459
cmykPercentChanged ==
    /\ pending = "none"
    /\ checked' = [checked EXCEPT ![CMYK_PERCENT_KEY] = ~checked[CMYK_PERCENT_KEY]]
    /\ LET v == IF checked'[CMYK_PERCENT_KEY] THEN "true" ELSE "false"
       IN /\ localStorage' = [localStorage EXCEPT ![CMYK_PERCENT_KEY] = v]
          /\ isCMYKPercent' = v
    /\ UNCHANGED <<isHexSharp, field, colorDemo, lastAlert, pending, edited,
                   written, cmykRead, edits, call>>

UserEdit == \E f \in EditedFields : \E txt \in TextsOf(f) : UserEdits(f, txt)

Next ==
    \/ UserEdit
    \/ rgbChanged
    \/ cmykChanged
    \/ hexChanged
    \/ hexSharpChanged
    \/ cmykPercentChanged

Spec == Init /\ [][Next]_vars

----------------------------------------------------------------------------
(* Direct calls of the library functions.  In each of the specifications   *)
(* below a behaviour makes one call (or one call and the inverse call on   *)
(* its result); call records the arguments and what came back.             *)

\* the first session: nothing stored yet
Fresh == Init /\ \A k \in OptionKeys : localStorage[k] = NULL

Idle == call = NoCall /\ pending = "none"

\* ---- makeValidRgb ----
RgbInputs == {Num(i) : i \in (0 - RgbMargin)..(RGB_MAX + RgbMargin)} \cup {NaN}

CallMakeValidRgb ==
    /\ Idle
    /\ \E v \in RgbInputs :
           call' = [fn |-> "makeValidRgb", arg |-> v, ret |-> makeValidRgb(v)]
    /\ UNCHANGED uiVars

SpecMakeValidRgb == Fresh /\ [][CallMakeValidRgb]_vars

\* ---- makeValidHex ----
BodyChars == {"1", "b", "g", "LIG_FF"}

RECURSIVE Hashes(_)
Hashes(k) == IF k = 0 THEN <<>> ELSE <<"#">> \o Hashes(k - 1)

CallMakeValidHex ==
    /\ Idle
    /\ \E k \in 0..MaxHashes : \E n \in 0..MaxBodyLen : \E body \in [1..n -> BodyChars] :
           LET value == Hashes(k) \o body
           IN call' = [fn |-> "makeValidHex", arg |-> value, ret |-> makeValidHex(value)]
    /\ UNCHANGED uiVars

SpecMakeValidHex == Fresh /\ [][CallMakeValidHex]_vars

\* ---- rgb2cmyk, and cmyk2rgb on its result ----
ChannelSamples == {0, 1, 128, RGB_MAX}
Channels == 0..RGB_MAX

\* every value of one channel against the samples of the other two
RgbTriples ==
    {<<r, g, b>> : r \in Channels, g \in ChannelSamples, b \in ChannelSamples}
    \cup {<<r, g, b>> : r \in ChannelSamples, g \in Channels, b \in ChannelSamples}
    \cup {<<r, g, b>> : r \in ChannelSamples, g \in ChannelSamples, b \in Channels}
    \cup {<<12, 34, 56>>}

CallRgb2Cmyk ==
    /\ Idle
    /\ \E t \in RgbTriples :
           LET tr == rgb2cmykTrace(Num(t[1]), Num(t[2]), Num(t[3]))
           IN call' = [fn |-> "rgb2cmyk", rgb |-> t, branch |-> tr.branch,
                       divisor |-> tr.divisor,
                       ret |-> rgb2cmyk(Num(t[1]), Num(t[2]), Num(t[3]))]
    /\ UNCHANGED uiVars

CallCmyk2RgbBack ==
    /\ call.fn = "rgb2cmyk"
    /\ call' = [fn |-> "cmyk2rgb", rgb |-> call.rgb, cmyk |-> call.ret,
                ret |-> cmyk2rgb(call.ret[1], call.ret[2], call.ret[3], call.ret[4])]
    /\ UNCHANGED uiVars

NextRgbCmyk == CallRgb2Cmyk \/ CallCmyk2RgbBack

SpecRgbCmyk == Fresh /\ [][NextRgbCmyk]_vars

\* ---- rgb2hex and hex2rgb, each on the other's result ----
HexSamples == {<<"0", "0">>, <<"8", "0">>, <<"F", "F">>}
HexPairs == {<<hex[i], hex[j]>> : i \in 1..16, j \in 1..16}

\* the normalized strings: every value of one pair against the samples of the others
HexStrings ==
    {a \o b \o c : a \in HexPairs, b \in HexSamples, c \in HexSamples}
    \cup {a \o b \o c : a \in HexSamples, b \in HexPairs, c \in HexSamples}
    \cup {a \o b \o c : a \in HexSamples, b \in HexSamples, c \in HexPairs}

CallRgb2Hex ==
    /\ Idle
    /\ \E t \in RgbTriples :
           call' = [fn |-> "rgb2hex", sharp |-> isHexSharp, rgb |-> t,
                    ret |-> rgb2hex(Num(t[1]), Num(t[2]), Num(t[3]))]
    /\ UNCHANGED uiVars

\* hex2rgb on what rgb2hex returned, and on what makeValidHex makes of it
CallHex2RgbBack ==
    /\ call.fn = "rgb2hex"
    /\ call' = [fn |-> "hex2rgb.rgb2hex", sharp |-> isHexSharp, rgb |-> call.rgb,
                sHEX |-> call.ret, ret |-> hex2rgb(call.ret),
                viaValid |-> hex2rgb(makeValidHex(call.ret).str)]
    /\ UNCHANGED uiVars

CallHex2Rgb ==
    /\ Idle
    /\ \E h \in HexStrings :
           call' = [fn |-> "hex2rgb", sharp |-> isHexSharp, sHEX |-> h, ret |-> hex2rgb(h)]
    /\ UNCHANGED uiVars

CallRgb2HexBack ==
    /\ call.fn = "hex2rgb"
    /\ call' = [fn |-> "rgb2hex.hex2rgb", sharp |-> isHexSharp, sHEX |-> call.sHEX,
                rgb |-> call.ret, ret |-> rgb2hex(call.ret[1], call.ret[2], call.ret[3])]
    /\ UNCHANGED uiVars

\* the option is switched between sessions of calls, never inside a round trip
SwitchHexSharp == call = NoCall /\ hexSharpChanged

NextHexRgb ==
    \/ SwitchHexSharp
    \/ CallRgb2Hex
    \/ CallHex2RgbBack
    \/ CallHex2Rgb
    \/ CallRgb2HexBack

SpecHexRgb == Fresh /\ [][NextHexRgb]_vars

\* ---- formatCmykOutput ----
CmykInputs == {<<Frac(k, GridSteps), Frac(GridSteps - k, GridSteps), Num(1), Num(0)>> :
                   k \in 0..GridSteps}

\* the caller holds the array at reference "a1" before and after the call
CallFormatCmykOutput ==
    /\ Idle
    /\ \E xs \in CmykInputs :
           LET heap == [ref \in {"a1"} |-> NumArray(xs)]
               out == formatCmykOutput(heap, "a1")
           IN call' = [fn |-> "formatCmykOutput", percent |-> isCMYKPercent,
                       before |-> heap["a1"], after |-> out.heap["a1"],
                       ret |-> out.heap[out.ret]]
    /\ UNCHANGED uiVars

SwitchCmykPercent == call = NoCall /\ cmykPercentChanged

NextFormat == SwitchCmykPercent \/ CallFormatCmykOutput

SpecFormat == Fresh /\ [][NextFormat]_vars

----------------------------------------------------------------------------
(* The claims *)

NumTriple(t) == <<Num(t[1]), Num(t[2]), Num(t[3])>>

\* C1: for r, g, b in 0..255, cmyk2rgb applied to the four components that
\* rgb2cmyk(r, g, b) returns gives back exactly (r, g, b).
C1_RoundTripExact ==
    call.fn = "cmyk2rgb" => call.ret = NumTriple(call.rgb)

C1_Witness ==
    /\ call.fn = "cmyk2rgb"
    /\ call.rgb = <<12, 34, 56>>
    /\ call.cmyk[4] = Frac(199, 255)
    /\ call.ret = NumTriple(<<12, 34, 56>>)

\* C2 as stated: in every state of the hex-prefix option, hex2rgb(rgb2hex(r, g, b))
\* is (r, g, b) and rgb2hex(hex2rgb(h)) is h for a normalized 6-character h.
C2_InversesInEveryState ==
    /\ call.fn = "hex2rgb.rgb2hex" => call.ret = NumTriple(call.rgb)
    /\ call.fn = "rgb2hex.hex2rgb" => call.ret = call.sHEX

\* C2 as amended: with the hex-prefix option off, rgb2hex and hex2rgb are
\* inverses of each other both ways; with it on, rgb2hex(hex2rgb(h)) is '#'
\* followed by h; and in either state hex2rgb gives back (r, g, b) from
\* rgb2hex(r, g, b) once makeValidHex has normalized that string.
C2_InversesUpToPrefix ==
    /\ (call.fn = "hex2rgb.rgb2hex" /\ call.sharp # "true")
           => call.ret = NumTriple(call.rgb)
    /\ (call.fn = "rgb2hex.hex2rgb" /\ call.sharp # "true")
           => call.ret = call.sHEX
    /\ (call.fn = "rgb2hex.hex2rgb" /\ call.sharp = "true")
           => call.ret = <<"#">> \o call.sHEX
    /\ call.fn = "hex2rgb.rgb2hex" => call.viaValid = NumTriple(call.rgb)

C2_Witness ==
    /\ call.fn = "hex2rgb.rgb2hex"
    /\ call.sharp = "true"
    /\ call.rgb = <<255, 0, 128>>
    /\ call.sHEX = <<"#", "F", "F", "0", "0", "8", "0">>
    /\ call.ret # NumTriple(call.rgb)
    /\ call.viaValid = NumTriple(call.rgb)

\* what C3 says makeValidHex returns
ClaimedHexChars == {hex[i] : i \in 1..16} \cup {LowerHex[i] : i \in 1..6}
ClaimedUpper(c) == IF IndexOf(LowerHex, c) > 0 THEN hex[10 + IndexOf(LowerHex, c)] ELSE c
ClaimedCleaned(value) ==
    IF value # <<>> /\ value[1] = "#"
    THEN SubSeq(value, 2, IF Len(value) < 7 THEN Len(value) ELSE 7)
    ELSE SubSeq(value, 1, IF Len(value) < 6 THEN Len(value) ELSE 6)
ClaimedHex(value) ==
    LET c == ClaimedCleaned(value)
    IN IF Len(c) \notin {3, 6} \/ \E i \in 1..Len(c) : c[i] \notin ClaimedHexChars
       THEN JsNum(Num(HEX_NOT_VALID))
       ELSE JsStr([i \in 1..6 |-> ClaimedUpper(c[IF Len(c) = 3 THEN (i + 1) \div 2 ELSE i])])

\* C3: makeValidHex signals invalid exactly when the cleaned string is not 3 or
\* 6 characters long or holds a character outside 0-9, A-F, a-f; otherwise it
\* returns the 6 characters of the upper-cased cleaned string, each character
\* doubled when there were 3.
C3_NormalizesOrRejects ==
    call.fn = "makeValidHex" => call.ret = ClaimedHex(call.arg)

\* C4: makeValidRgb returns an integer in 0..255 for every integer and for NaN:
\* 0 below 0 and for NaN, 255 above 255, the value itself otherwise.
C4_Clamps ==
    call.fn = "makeValidRgb" =>
        LET v == call.arg
            r == call.ret
        IN /\ ~r.nan /\ r.d = 1 /\ r.n \in 0..RGB_MAX
           /\ v.nan => r.n = 0
           /\ (~v.nan /\ v.n < 0) => r.n = 0
           /\ (~v.nan /\ v.n > RGB_MAX) => r.n = RGB_MAX
           /\ (~v.nan /\ v.n \in 0..RGB_MAX) => r.n = v.n

C4_Witness ==
    /\ call.fn = "makeValidRgb"
    /\ call.arg = Num(300)
    /\ call.ret = Num(RGB_MAX)

\* C5: rgb2cmyk never divides by zero: 1 - fK is zero only for r = g = b = 0,
\* that input takes the pure-black branch and gives (0, 0, 0, 1), and every
\* other input divides by a divisor that is not zero.
C5_NoDivisionByZero ==
    call.fn = "rgb2cmyk" =>
        LET black == call.rgb = <<0, 0, 0>>
        IN /\ NumEq(call.divisor, Num(0)) <=> black
           /\ call.branch = "black" <=> black
           /\ black => call.ret = <<Num(0), Num(0), Num(0), Num(1)>>
           /\ call.branch = "divide" => ~NumEq(call.divisor, Num(0))
           /\ \A i \in 1..4 : ~call.ret[i].nan /\ call.ret[i].d > 0

C5_Witness ==
    /\ call.fn = "rgb2cmyk"
    /\ call.rgb = <<0, 0, 0>>
    /\ call.branch = "black"
    /\ call.ret = <<Num(0), Num(0), Num(0), Num(1)>>

\* n is x rounded to the nearest integer, a tie going up
RoundsTo(n, x) == 2 * n * x.d <= 2 * x.n + x.d /\ 2 * x.n + x.d < 2 * (n + 1) * x.d

\* m thousandths written with three decimals
FixedText(m) ==
    NatToStr(m \div 1000)
        \o <<".", Digits[((m \div 100) % 10) + 1], Digits[((m \div 10) % 10) + 1],
             Digits[(m % 10) + 1]>>

\* C6: formatCmykOutput turns each value v of [0, 1] into the decimal text of
\* round(v * 100) followed by " %" when the percent option is on, and into v
\* with exactly 3 digits after the decimal point when it is off.
C6_FormatsByMode ==
    call.fn = "formatCmykOutput" =>
        \A i \in 1..4 :
            LET v == call.before[i].num
                s == call.ret[i]
            IN /\ s.t = "string"
               /\ IF call.percent = "true"
                  THEN \E n \in 0..100 :
                           /\ RoundsTo(n, NumMul(v, Num(100)))
                           /\ s.str = NatToStr(n) \o <<" ", "%">>
                  ELSE \E m \in 0..1000 :
                           /\ RoundsTo(m, NumMul(v, Num(1000)))
                           /\ s.str = FixedText(m)

C6_Witness ==
    /\ call.fn = "formatCmykOutput"
    /\ call.percent = "false"
    /\ call.before[1].num = Frac(1, 2)
    /\ Strings(call.ret) = <<<<"0", ".", "5", "0", "0">>, <<"0", ".", "5", "0", "0">>,
                             <<"1", ".", "0", "0", "0">>, <<"0", ".", "0", "0", "0">>>>

\* C7: every validator, converter and formatter is pure; after formatCmykOutput
\* returns, the array the caller passed still holds the same four numbers.
C7_ArgumentUntouched ==
    call.fn = "formatCmykOutput" => call.after = call.before

SixUpperHex(s) == Len(s) = 6 /\ \A i \in 1..6 : IndexOf(hex, s[i]) > 0

\* a change handler has run to its end without an alert
HandlerWrote == pending # "none" /\ pending' = "none" /\ ~lastAlert'

\* C8: whenever rgbChanged, cmykChanged or a successful hexChanged writes the
\* hex field, the text starts with '#' exactly when the hex-prefix option is on
\* and goes on with 6 upper-case hex digits, and the colour swatch is given
\* exactly one '#' and those 6 digits.
C8_PrefixConsistent ==
    [][HandlerWrote =>
          /\ IF isHexSharp = "true"
             THEN field'["hex"] # <<>> /\ Head(field'["hex"]) = "#"
                  /\ SixUpperHex(Tail(field'["hex"]))
             ELSE SixUpperHex(field'["hex"])
          /\ colorDemo' # <<>> /\ Head(colorDemo') = "#"
          /\ SixUpperHex(Tail(colorDemo'))]_vars

\* hexChanged runs on a hex text that makeValidHex rejects
HexRejectedStep ==
    pending = "hex" /\ pending' = "none" /\ IsNotValid(makeValidHex(field["hex"]))

\* C9: when makeValidHex signals invalid, hexChanged raises the alert and
\* returns with every field and the colour swatch as they were, nothing
\* converted.
C9_RejectedChangesNothing ==
    [][HexRejectedStep =>
          /\ lastAlert'
          /\ field' = field
          /\ colorDemo' = colorDemo
          /\ written' = written]_vars

C9_Witness ==
    /\ lastAlert
    /\ pending = "none"
    /\ field["hex"] = <<"1", "2">>
    /\ field["rgb_R"] = <<"1", "2", "8">>
    /\ colorDemo = <<"#", "8", "0", "0", "0", "0", "0">>

\* two fractions agree to the precision either format shows (half a percent)
Close(a, b) ==
    \/ a.nan /\ b.nan
    \/ /\ ~a.nan /\ ~b.nan /\ a.d > 0 /\ b.d > 0
       /\ 200 * Abs(a.n * b.d - b.n * a.d) <= a.d * b.d

\* C10: cmykChanged reads every CMYK field the user did not edit as the
\* fraction the latest formatting wrote into it, to the precision shown.
C10_ReadsWhatWasWritten ==
    [][(pending = "cmyk" /\ pending' = "none") =>
          \A f \in CmykFields \ {edited} :
              written[f].set => Close(cmykRead'[f], written[f].val)]_vars

=============================================================================
